---------------------------- MODULE Spec2Model ----------------------------
(***************************************************************************)
(* Model of check_emails_split.py: a CSV email validator that checks the   *)
(* syntax of each address and the MX record of its domain on a thread      *)
(* pool, with a shared domain cache, a cap on the futures in flight, and   *)
(* two output files (good / bad).                                          *)
(*                                                                         *)
(* Strings are sequences of one-character strings, so that strip(),        *)
(* lower(), rstrip("."), split("@") and the regular expression are         *)
(* computed, not assumed.                                                  *)
(***************************************************************************)
EXTENDS Integers, Sequences, FiniteSets, TLC

(***************************************************************************)
(* Bounds of the model.  MaxTasks is the number of data rows of the input  *)
(* (and of direct calls of has_mx_record).  THREADS and MAX_IN_FLIGHT are  *)
(* configuration values of the program (50 and 1000 in the source),        *)
(* scaled down.                                                            *)
(***************************************************************************)
MaxTasks == 3
THREADS == 3
MAX_IN_FLIGHT == 2

(***************************************************************************)
(* Characters and strings                                                  *)
(***************************************************************************)
LowerLetters ==
    { "a","b","c","d","e","f","g","h","i","j","k","l","m",
      "n","o","p","q","r","s","t","u","v","w","x","y","z" }

LowerOf ==
    ("A" :> "a") @@ ("B" :> "b") @@ ("C" :> "c") @@ ("D" :> "d") @@
    ("E" :> "e") @@ ("F" :> "f") @@ ("G" :> "g") @@ ("H" :> "h") @@
    ("I" :> "i") @@ ("J" :> "j") @@ ("K" :> "k") @@ ("L" :> "l") @@
    ("M" :> "m") @@ ("N" :> "n") @@ ("O" :> "o") @@ ("P" :> "p") @@
    ("Q" :> "q") @@ ("R" :> "r") @@ ("S" :> "s") @@ ("T" :> "t") @@
    ("U" :> "u") @@ ("V" :> "v") @@ ("W" :> "w") @@ ("X" :> "x") @@
    ("Y" :> "y") @@ ("Z" :> "z")

UpperLetters == DOMAIN LowerOf

Letters == LowerLetters \cup UpperLetters

Digits == { "0","1","2","3","4","5","6","7","8","9" }

Whitespace == { " ", "\t", "\n", "\r" }

\* str.lower()
LowerChar(c) == IF c \in UpperLetters THEN LowerOf[c] ELSE c

RECURSIVE Lower(_)
Lower(s) == IF s = <<>> THEN <<>> ELSE <<LowerChar(Head(s))>> \o Lower(Tail(s))

\* str.lstrip(chars) and str.rstrip(chars): every leading / trailing
\* character of the set is removed, not just one.
RECURSIVE LStripChars(_, _)
LStripChars(s, cs) ==
    IF s # <<>> /\ Head(s) \in cs THEN LStripChars(Tail(s), cs) ELSE s

RECURSIVE RStripChars(_, _)
RStripChars(s, cs) ==
    IF s # <<>> /\ s[Len(s)] \in cs
    THEN RStripChars(SubSeq(s, 1, Len(s) - 1), cs)
    ELSE s

\* str.strip()
Strip(s) == RStripChars(LStripChars(s, Whitespace), Whitespace)

\* s.split(sep)[-1]: what follows the last sep (all of s when there is none)
RECURSIVE SplitLast(_, _)
SplitLast(s, sep) ==
    IF \E i \in 1..Len(s) : s[i] = sep
    THEN SplitLast(Tail(s), sep)
    ELSE s

AllIn(s, cs) == \A i \in 1..Len(s) : s[i] \in cs

(***************************************************************************)
(* Configuration of the program                                            *)
(***************************************************************************)
SKIP_MX_DOMAINS ==
    { <<"g","m","a","i","l",".","c","o","m">>,
      <<"y","a","h","o","o",".","c","o","m">>,
      <<"h","o","t","m","a","i","l",".","c","o","m">>,
      <<"o","u","t","l","o","o","k",".","c","o","m">>,
      <<"a","o","l",".","c","o","m">>,
      <<"l","i","v","e",".","c","o","m">>,
      <<"i","c","l","o","u","d",".","c","o","m">>,
      <<"m","s","n",".","c","o","m">>,
      <<"p","r","o","t","o","n","m","a","i","l",".","c","o","m">>,
      <<"g","m","x",".","c","o","m">>,
      <<"y","a","n","d","e","x",".","c","o","m">>,
      <<"m","a","i","l",".","c","o","m">>,
      <<"z","o","h","o",".","c","o","m">> }

\* EMAIL_REGEX = ^[A-Za-z0-9._%+-]+@[A-Za-z0-9.-]+\.[A-Za-z]{2,}$
LocalChars == Letters \cup Digits \cup { ".", "_", "%", "+", "-" }

DomainChars == Letters \cup Digits \cup { ".", "-" }

\* The match of EMAIL_REGEX against all of s: i is the place of "@", j the
\* place of the dot before the final label.
EMAIL_REGEX(s) ==
    \E i \in 2..Len(s) : \E j \in (i + 2)..Len(s) :
        /\ s[i] = "@"
        /\ AllIn(SubSeq(s, 1, i - 1), LocalChars)
        /\ AllIn(SubSeq(s, i + 1, j - 1), DomainChars)
        /\ s[j] = "."
        /\ Len(s) - j >= 2
        /\ AllIn(SubSeq(s, j + 1, Len(s)), Letters)

\* A match of the pattern without its final "$": a prefix of the address.
is_valid_syntax_prefix(email) ==
    \E k \in 1..Len(email) : EMAIL_REGEX(SubSeq(email, 1, k))

\* Lines 56-57
is_valid_syntax(email) == EMAIL_REGEX(email)

(***************************************************************************)
(* Sample inputs                                                           *)
(***************************************************************************)
Header == << "Name", "Email" >>

DerivedColumns == << "Invalid Email", "syntax_ok", "mx_ok", "status" >>

NameField == << "n" >>

EmailSkip == <<"a","@","G","m","a","i","l",".","c","o","m">>
EmailX == <<"a","@","X",".","i","o">>
EmailY == <<"a","@","y",".","i","o">>
EmailTrailingDot == <<" ","a","@","g","m","a","i","l",".","c","o","m",".">>
EmailBlank == <<" ">>

\* The rows the reader may yield: no field, one field, and two fields with
\* each sample address (blank; not an address, with a space to strip;
\* a skip-listed domain in capitals; two other domains).
RowKinds ==
    { <<>>, << NameField >> } \cup
    { << NameField, e >> : e \in { EmailBlank, EmailTrailingDot,
                                   EmailSkip, EmailX, EmailY } }

\* The arguments of the direct calls of has_mx_record.
DirectArgs ==
    { <<"g","m","a","i","l",".","c","o","m">>,
      <<" ","G","m","a","i","l",".","c","o","m",".">>,
      <<"x",".","i","o">>,
      <<" ","X",".","i","o","."," ">>,
      <<"x",".","i","o",".",".">> }

\* What dns.resolver.resolve may do: return an answer, or raise
\* (dns.resolver.NXDOMAIN, a timeout, no name server, anything else).
ResolverOutcomes == { "answer", "NXDOMAIN", "Timeout", "NoNameservers", "RuntimeError" }

\* Faults injected into a task: none; an exception raised by the call of
\* is_valid_syntax (line 106); one raised by the domain step (lines 114-118)
\* before has_mx_record touches anything; a future whose result() raises.
FaultKinds == { "none", "syntax", "domain", "future" }

(***************************************************************************)
(* process_row                                                             *)
(***************************************************************************)
\* row + [invalid_email_col, syntax_ok, mx_ok, status]
OutRow(row, invalid_email_col, syntax_ok, mx_ok, status) ==
    row \o << invalid_email_col, syntax_ok, mx_ok, status >>

StatusOf(out_row) == out_row[Len(out_row)]
MxOkOf(out_row) == out_row[Len(out_row) - 1]
SyntaxOkOf(out_row) == out_row[Len(out_row) - 2]
EchoOf(out_row) == out_row[Len(out_row) - 3]
FieldsOf(out_row) == SubSeq(out_row, 1, Len(out_row) - 4)

\* The three ways a stretch of process_row ends: it returns a row, it
\* calls has_mx_record(domain), or an exception leaves process_row.
Returns(out_row) == [kind |-> "return", out |-> out_row, domain |-> <<>>]
Calls(domain) == [kind |-> "call", out |-> <<>>, domain |-> domain]
Raises == [kind |-> "raise", out |-> <<>>, domain |-> <<>>]

\* Lines 88-92 without .strip()
EmailOfNoStrip(row) == IF Len(row) <= 1 THEN <<>> ELSE row[2]

\* Lines 88-92: the stripped email field, "" when the row has none.
EmailOf(row) == IF Len(row) <= 1 THEN <<>> ELSE Strip(row[2])

\* Line 114 without .lower()
DomainOfNoLower(email) == Strip(SplitLast(email, "@"))

\* Line 114: email.split("@")[-1].lower().strip()
DomainOf(email) == Strip(Lower(SplitLast(email, "@")))

\* A handler that lets the exception go on.
ExceptHandlerReraise(row, email, syntax_ok, mx_ok) == Raises

\* Lines 123-127: the catch-all handler.
ExceptHandler(row, email, syntax_ok, mx_ok) ==
    Returns(OutRow(row, IF ~syntax_ok THEN email ELSE <<>>,
                   syntax_ok, mx_ok, "Error: RuntimeError"))

\* Valid as soon as the syntax is.
StatusForSyntaxOnly(syntax_ok, mx_ok) ==
    IF syntax_ok THEN "Valid" ELSE "Invalid Domain"

\* Line 120
StatusFor(syntax_ok, mx_ok) ==
    IF syntax_ok /\ mx_ok THEN "Valid" ELSE "Invalid Domain"

\* Lines 120-121: the end of process_row once mx_ok is known.
FinishRow(row, syntax_ok, mx_ok) ==
    Returns(OutRow(row, <<>>, syntax_ok, mx_ok, StatusFor(syntax_ok, mx_ok)))

\* Lines 88-118: process_row up to its return or its call of has_mx_record.
ProcessRowBegin(row, fault) ==
    LET email == EmailOf(row) IN
    IF email = <<>>
    THEN Returns(OutRow(row, <<>>, FALSE, FALSE, "Missing Email"))
    ELSE IF fault = "syntax"
    THEN ExceptHandler(row, email, FALSE, FALSE)
    ELSE IF ~is_valid_syntax(email)
    THEN Returns(OutRow(row, email, FALSE, FALSE, "Invalid Syntax"))
    ELSE IF fault = "domain"
    THEN ExceptHandler(row, email, TRUE, FALSE)
    ELSE LET domain == DomainOf(email) IN
         IF domain \in SKIP_MX_DOMAINS
         THEN FinishRow(row, TRUE, TRUE)
         ELSE Calls(domain)

\* The fault that took effect: a fault injected where the row never gets
\* to is no fault.
EffectiveFault(row, fault) ==
    IF fault = "future" \/ ProcessRowBegin(row, fault) # ProcessRowBegin(row, "none")
    THEN fault
    ELSE "none"

\* Line 176: the row main() builds when fut.result() raises.
FutureErrorRow ==
    [i \in 1..Len(Header) |-> <<>>] \o << <<>>, FALSE, FALSE, "FutureError: RuntimeError" >>

(***************************************************************************)
(* has_mx_record                                                           *)
(***************************************************************************)
\* Line 63 without .lower()
NormalizeNoLower(domain) == RStripChars(Strip(domain), {"."})

\* Line 63: domain.strip().lower().rstrip(".")
Normalize(domain) == RStripChars(Lower(Strip(domain)), {"."})

\* A with block that reaches down to the return of line 77: the thread
\* keeps the lock while it queries.
LockAtQueryHeld(i) == i

\* Lines 64-68: the with block ends at line 66, the thread enters the try
\* block of the query without the lock.
LockAtQuery(i) == 0

\* A hit that answers True whatever was stored.
CacheGetAlwaysTrue(c, d) == TRUE

\* Line 66
CacheGet(c, d) == c[d]

\* Line 76
CachePut(c, d, ok) == [x \in DOMAIN c \cup {d} |-> IF x = d THEN ok ELSE c[x]]

\* A clause that catches the resolver's NXDOMAIN alone.
CatchesNXDOMAINOnly(outcome) == outcome = "NXDOMAIN"

\* Line 72: "except Exception" catches whatever the resolver raises.
Catches(outcome) == TRUE

\* Whether the resolver raised.
Raised(outcome) == outcome # "answer"

\* Lines 70-73: ok is True when resolve() returns, False when it raises.
VerdictOf(outcome) == ~Raised(outcome)

(***************************************************************************)
(* State                                                                   *)
(***************************************************************************)
VARIABLES
    pc,          \* where main() is
    rows,        \* the data rows the reader has yielded so far
    submitted,   \* main(): submitted
    processed,   \* main(): processed
    in_flight,   \* main(): in_flight, a set of futures (task numbers)
    done,        \* main(): the done set of concurrent.futures.wait
    not_done,    \* main(): the not_done set of concurrent.futures.wait
    todo,        \* the futures the running for loop has still to yield
    queue,       \* the executor's work queue
    fut,         \* the futures: state, exception, result
    w,           \* the threads inside has_mx_record, by the task they run
    domain_cache,\* domain_cache, under cache_lock
    cache_lock,  \* cache_lock: the task whose thread holds it, 0 when free
    dns,         \* whether the resolver answers for a domain, fixed at the first query
    queries,     \* how many times the resolver was invoked, per domain
    good,        \* the lines of GOOD_FILE
    bad,         \* the lines of BAD_FILE
    flushed,     \* how many lines of each output have left the file's buffer
    returned     \* the direct calls of has_mx_record that returned

vars == << pc, rows, submitted, processed, in_flight, done, not_done, todo,
           queue, fut, w, domain_cache, cache_lock, dns, queries, good, bad,
           flushed, returned >>

\* Futures are numbered in the order of submission.  The threads of the
\* pool are interchangeable: a thread is known by the task it runs.
Tasks == 1..MaxTasks

NoFuture == [state |-> "none", exc |-> FALSE, out |-> <<>>, fault |-> "none"]

Idle == [pc |-> "idle", arg |-> <<>>, domain |-> <<>>, outcome |-> "none", ok |-> FALSE]

Empty == [x \in {} |-> FALSE]

Busy == { i \in Tasks : w[i].pc # "idle" }

InitCommon ==
    /\ rows = <<>>
    /\ submitted = 0
    /\ processed = 0
    /\ in_flight = {}
    /\ done = {}
    /\ not_done = {}
    /\ todo = {}
    /\ queue = <<>>
    /\ fut = [i \in Tasks |-> NoFuture]
    /\ w = [i \in Tasks |-> Idle]
    /\ domain_cache = Empty
    /\ cache_lock = 0
    /\ dns = Empty
    /\ queries = Empty
    /\ good = <<>>
    /\ bad = <<>>
    /\ flushed = [good |-> 0, bad |-> 0]
    /\ returned = <<>>

\* main() is about to open the files.
Init == pc = "start" /\ InitCommon

(***************************************************************************)
(* The worker threads                                                      *)
(***************************************************************************)
\* The work item of the executor: the future gets process_row's result, or
\* the exception that left it.
Complete(i, fault, o) ==
    /\ fut' = [fut EXCEPT ![i] = [state |-> "done", exc |-> o.kind = "raise",
                                  out |-> o.out, fault |-> fault]]
    /\ w' = [w EXCEPT ![i] = Idle]

\* has_mx_record returns v to its caller: process_row goes on at line 118,
\* a direct call is logged.
ReturnFromHasMx(i, v) ==
    IF pc = "harness"
    THEN /\ returned' = Append(returned, [arg |-> w[i].arg, ret |-> v,
                                          raised |-> FALSE, outcome |-> w[i].outcome])
         /\ w' = [w EXCEPT ![i] = Idle]
         /\ fut' = fut
    ELSE /\ Complete(i, fut[i].fault, FinishRow(rows[i], TRUE, v))
         /\ returned' = returned

\* An exception leaves has_mx_record: process_row catches it at line 123,
\* with syntax_ok true and mx_ok still false; a direct caller gets it.
RaiseFromHasMx(i, outcome) ==
    IF pc = "harness"
    THEN /\ returned' = Append(returned, [arg |-> w[i].arg, ret |-> FALSE,
                                          raised |-> TRUE, outcome |-> outcome])
         /\ w' = [w EXCEPT ![i] = Idle]
         /\ fut' = fut
    ELSE /\ Complete(i, fut[i].fault,
                     ExceptHandler(rows[i], EmailOf(rows[i]), TRUE, FALSE))
         /\ returned' = returned

\* A free thread of the pool takes the next work item and runs process_row
\* up to its return or its call of has_mx_record.
WorkerStart ==
    /\ queue # <<>>
    /\ Cardinality(Busy) < THREADS
    /\ \E fault \in FaultKinds :
         LET i == Head(queue)
             o == IF fault = "future" THEN Raises ELSE ProcessRowBegin(rows[i], fault)
             f == EffectiveFault(rows[i], fault)
         IN  IF o.kind = "call"
             THEN /\ w' = [w EXCEPT ![i] = [pc |-> "read", arg |-> o.domain,
                                            domain |-> <<>>, outcome |-> "none", ok |-> FALSE]]
                  /\ fut' = [fut EXCEPT ![i].state = "running", ![i].fault = f]
             ELSE Complete(i, f, o)
    /\ queue' = Tail(queue)
    /\ UNCHANGED << cache_lock, pc, rows, submitted, processed, in_flight, done, not_done, todo,
                    domain_cache, dns, queries, good, bad, returned,
                    flushed >>

\* has_mx_record with a skip-list test of its own before the cache.
HasMxReadSkipList(i) ==
    /\ w[i].pc = "read"
    /\ cache_lock = 0
    /\ cache_lock' = 0
    /\ LET d == Normalize(w[i].arg) IN
       IF d \in SKIP_MX_DOMAINS
       THEN ReturnFromHasMx(i, TRUE)
       ELSE IF d \in DOMAIN domain_cache
       THEN ReturnFromHasMx(i, CacheGet(domain_cache, d))
       ELSE /\ w' = [w EXCEPT ![i].pc = "query", ![i].domain = d]
            /\ UNCHANGED << fut, returned >>
    /\ UNCHANGED << pc, rows, submitted, processed, in_flight, done, not_done, todo,
                    queue, domain_cache, dns, queries, good, bad,
                    flushed >>

\* has_mx_record without lines 65-66: every call goes on to the query.
HasMxReadAlwaysMiss(i) ==
    /\ w[i].pc = "read"
    /\ cache_lock = 0
    /\ cache_lock' = 0
    /\ w' = [w EXCEPT ![i].pc = "query", ![i].domain = Normalize(w[i].arg)]
    /\ UNCHANGED << pc, rows, submitted, processed, in_flight, done, not_done, todo,
                    queue, fut, domain_cache, dns, queries, good, bad, flushed,
                    returned >>

\* Lines 63-66: normalize, take the lock, read the cache and leave the with
\* block: by its return on a hit, by its end on a miss.
HasMxRead(i) ==
    /\ w[i].pc = "read"
    /\ cache_lock = 0
    /\ LET d == Normalize(w[i].arg) IN
       IF d \in DOMAIN domain_cache
       THEN /\ ReturnFromHasMx(i, CacheGet(domain_cache, d))
            /\ cache_lock' = 0
       ELSE /\ w' = [w EXCEPT ![i].pc = "query", ![i].domain = d]
            /\ cache_lock' = LockAtQuery(i)
            /\ UNCHANGED << fut, returned >>
    /\ UNCHANGED << pc, rows, submitted, processed, in_flight, done, not_done, todo,
                    queue, domain_cache, dns, queries, good, bad,
                    flushed >>

\* Lines 68-73: the DNS query, outside the lock.  The resolver answers or
\* raises; whether a domain has an MX record does not change during the
\* run (dns).  What it raises is caught and gives ok = False.
HasMxQuery(i) ==
    /\ w[i].pc = "query"
    /\ LET d == w[i].domain IN
       \E outcome \in ResolverOutcomes :
          /\ d \in DOMAIN dns => dns[d] = ~Raised(outcome)
          /\ dns' = [x \in DOMAIN dns \cup {d} |->
                        IF x = d THEN ~Raised(outcome) ELSE dns[x]]
          /\ queries' = [x \in DOMAIN queries \cup {d} |->
                            IF x = d
                            THEN (IF d \in DOMAIN queries THEN queries[d] ELSE 0) + 1
                            ELSE queries[x]]
          /\ IF Raised(outcome) /\ ~Catches(outcome)
             THEN RaiseFromHasMx(i, outcome)
             ELSE /\ w' = [w EXCEPT ![i].pc = "write", ![i].outcome = outcome,
                                    ![i].ok = VerdictOf(outcome)]
                  /\ UNCHANGED << fut, returned >>
    /\ UNCHANGED << cache_lock, pc, rows, submitted, processed, in_flight, done, not_done, todo,
                    queue, domain_cache, good, bad,
                    flushed >>

\* Lines 75-77: take the lock, store the verdict, release the lock and
\* return the verdict.
HasMxWrite(i) ==
    /\ w[i].pc = "write"
    /\ cache_lock = 0
    /\ cache_lock' = 0
    /\ domain_cache' = CachePut(domain_cache, w[i].domain, w[i].ok)
    /\ ReturnFromHasMx(i, w[i].ok)
    /\ UNCHANGED << pc, rows, submitted, processed, in_flight, done, not_done, todo,
                    queue, dns, queries, good, bad,
                    flushed >>

HasMxStep(i) == HasMxRead(i) \/ HasMxQuery(i) \/ HasMxWrite(i)

WorkerStep == WorkerStart \/ \E i \in Tasks : HasMxStep(i)

(***************************************************************************)
(* main()                                                                  *)
(***************************************************************************)
\* The header as read, without the new columns.
HeaderLineAsRead == [kind |-> "header", id |-> 0, cells |-> Header]

\* Lines 149-154: new_header, as a line of an output
HeaderLine == [kind |-> "header", id |-> 0, cells |-> Header \o DerivedColumns]

\* A cap test that lets one more future in.
CapReachedOffByOne(n) == n > MAX_IN_FLIGHT

\* Line 166
CapReached(n) == n >= MAX_IN_FLIGHT

\* A wait that hands back one completed future only.
CompletedOfOne(fs) ==
    LET c == { f \in fs : fut[f].state = "done" } IN
    IF c = {} THEN {} ELSE { CHOOSE f \in c : TRUE }

\* The done set of concurrent.futures.wait(fs, FIRST_COMPLETED): every
\* future of fs that has completed when wait returns.
CompletedOf(fs) == { f \in fs : fut[f].state = "done" }

\* A not_done set that keeps the futures that have completed.
NotDoneOfAll(fs, d) == fs

\* A not_done set that forgets the futures still running.
NotDoneOfNothing(fs, d) == {}

\* The not_done set of concurrent.futures.wait
NotDoneOf(fs, d) == fs \ d

\* Lines 171-176 and 197-200: fut.result(), or the row that stands for it.
ResultOf(f) == IF fut[f].exc THEN FutureErrorRow ELSE fut[f].out

\* A router that looks at syntax_ok alone.
DestinationBySyntax(out_row) == IF SyntaxOkOf(out_row) = TRUE THEN "good" ELSE "bad"

\* Lines 179-183 and 201-205
Destination(out_row) == IF StatusOf(out_row) = "Valid" THEN "good" ELSE "bad"

\* A pass that skips a future whose result() raised: no row, no count.
WriteOutDropFailed(f) ==
    LET out_row == fut[f].out
        line == [kind |-> "row", id |-> f, cells |-> out_row]
    IN  IF fut[f].exc
        THEN UNCHANGED << good, bad, processed >>
        ELSE /\ IF StatusOf(out_row) = "Valid"
                THEN good' = Append(good, line) /\ bad' = bad
                ELSE bad' = Append(bad, line) /\ good' = good
             /\ processed' = processed + 1

\* One pass of the body of either collecting loop: write the row of future f
\* and count it.
WriteOut(f) ==
    LET out_row == ResultOf(f)
        line == [kind |-> "row", id |-> f, cells |-> out_row]
    IN  /\ IF Destination(out_row) = "good"
           THEN good' = Append(good, line) /\ bad' = bad
           ELSE bad' = Append(bad, line) /\ good' = good
        /\ processed' = processed + 1

\* Lines 136-154: open the files and read the header; an empty input ends
\* the run there, otherwise both outputs get the new header.
MainOpen ==
    /\ pc = "start"
    /\ \/ /\ pc' = "empty"
          /\ UNCHANGED << good, bad >>
       \/ /\ pc' = "submit"
          /\ good' = Append(good, HeaderLine)
          /\ bad' = Append(bad, HeaderLine)
    /\ UNCHANGED << cache_lock, rows, submitted, processed, in_flight, done, not_done, todo,
                    queue, fut, w, domain_cache, dns, queries, returned,
                    flushed >>

\* Lines 160-166: the reader yields a row (one of kinds); submit it, and
\* test the cap.
MainSubmitOf(kinds) ==
    /\ pc = "submit"
    /\ Len(rows) < MaxTasks
    /\ \E row \in kinds :
         LET i == Len(rows) + 1 IN
         /\ rows' = Append(rows, row)
         /\ fut' = [fut EXCEPT ![i].state = "queued"]
         /\ queue' = Append(queue, i)
         /\ in_flight' = in_flight \cup {i}
         /\ submitted' = submitted + 1
         /\ pc' = IF CapReached(Cardinality(in_flight')) THEN "wait" ELSE "submit"
    /\ UNCHANGED << cache_lock, processed, done, not_done, todo, w, domain_cache, dns, queries,
                    good, bad, returned,
                    flushed >>

\* Lines 167-169: wait returns once a future of in_flight has completed.
MainWait ==
    /\ pc = "wait"
    /\ CompletedOf(in_flight) # {}
    /\ done' = CompletedOf(in_flight)
    /\ not_done' = NotDoneOf(in_flight, done')
    /\ todo' = done'
    /\ pc' = "collect"
    /\ UNCHANGED << cache_lock, rows, submitted, processed, in_flight, queue, fut, w,
                    domain_cache, dns, queries, good, bad, returned,
                    flushed >>

\* Lines 170-188: one pass of the loop over done; after the last one
\* in_flight becomes not_done and the submission loop goes on.
MainCollect ==
    /\ pc = "collect"
    /\ \E f \in todo :
         /\ WriteOut(f)
         /\ todo' = todo \ {f}
         /\ IF todo' = {}
            THEN /\ in_flight' = not_done
                 /\ done' = {}
                 /\ not_done' = {}
                 /\ pc' = "submit"
            ELSE UNCHANGED << in_flight, done, not_done, pc >>
    /\ UNCHANGED << cache_lock, rows, submitted, queue, fut, w, domain_cache, dns, queries,
                    returned,
                    flushed >>

\* A drain that takes no future.
PendingOfNothing(fs) == {}

\* Line 196: the futures as_completed(fs) has to yield.
PendingOf(fs) == fs

\* Lines 160 and 195-196: the reader is exhausted; what is left in in_flight
\* is handed to as_completed.
MainEndOfInput ==
    /\ pc = "submit"
    /\ todo' = PendingOf(in_flight)
    /\ pc' = IF todo' # {} THEN "drain" ELSE "shutdown"
    /\ UNCHANGED << cache_lock, rows, submitted, processed, in_flight, done, not_done, queue,
                    fut, w, domain_cache, dns, queries, good, bad, returned,
                    flushed >>

\* Lines 196-206: as_completed yields a future that has completed.
MainDrain ==
    /\ pc = "drain"
    /\ \E f \in CompletedOf(todo) :
         /\ WriteOut(f)
         /\ todo' = todo \ {f}
         /\ pc' = IF todo' = {} THEN "shutdown" ELSE "drain"
    /\ UNCHANGED << cache_lock, rows, submitted, in_flight, done, not_done, queue, fut, w,
                    domain_cache, dns, queries, returned,
                    flushed >>

\* Lines 136-138, 157 and 208-215: the executor block is left once its
\* threads have no work, the files are closed (what their buffers hold is
\* written out) and the summary is printed.
MainFinish ==
    /\ pc = "shutdown"
    /\ queue = <<>>
    /\ Busy = {}
    /\ flushed' = [good |-> Len(good), bad |-> Len(bad)]
    /\ pc' = "done"
    /\ UNCHANGED << cache_lock, rows, submitted, processed, in_flight, done, not_done, todo,
                    queue, fut, w, domain_cache, dns, queries, good, bad, returned >>

MainSubmit == MainSubmitOf(RowKinds)

MainStep ==
    \/ MainOpen
    \/ MainSubmit
    \/ MainWait
    \/ MainCollect
    \/ MainEndOfInput
    \/ MainDrain
    \/ MainFinish

Next == MainStep \/ WorkerStep

Spec == Init /\ [][Next]_vars

\* The same program on inputs made of two kinds of rows (one that needs no
\* lookup, one whose domain is looked up), with every DNS lookup returning
\* or timing out and no thread starved.
LiveRowKinds == { << NameField >>, << NameField, EmailX >> }

MainSubmitLive == MainSubmitOf(LiveRowKinds)

MainStepLive ==
    \/ MainOpen
    \/ MainSubmitLive
    \/ MainWait
    \/ MainCollect
    \/ MainEndOfInput
    \/ MainDrain
    \/ MainFinish

NextLive == MainStepLive \/ WorkerStep

FairSpec ==
    /\ Init
    /\ [][NextLive]_vars
    /\ WF_vars(MainStepLive)
    /\ WF_vars(WorkerStart)
    /\ \A i \in Tasks : WF_vars(HasMxStep(i))

(***************************************************************************)
(* The outputs on disk.  Both are opened with the default buffering and    *)
(* main() never calls flush(): a line written by writerow stays in the     *)
(* buffer of its file until the buffer fills or the file is closed.        *)
(***************************************************************************)
OutputFiles == { "good", "bad" }

ContentOf(file) == IF file = "good" THEN good ELSE bad

\* Lines 136-138: the buffer of an output file fills and is written out.
BufferFlush(file) ==
    /\ pc \in { "submit", "wait", "collect", "drain", "shutdown" }
    /\ flushed[file] < Len(ContentOf(file))
    /\ flushed' = [flushed EXCEPT ![file] = Len(ContentOf(file))]
    /\ UNCHANGED << cache_lock, pc, rows, submitted, processed, in_flight, done, not_done, todo,
                    queue, fut, w, domain_cache, dns, queries, good, bad, returned >>

\* The process is killed: what the buffers held is lost, each output file
\* holds the lines that were written out.
Crash ==
    /\ pc \in { "submit", "wait", "collect", "drain", "shutdown" }
    /\ pc' = "killed"
    /\ good' = SubSeq(good, 1, flushed.good)
    /\ bad' = SubSeq(bad, 1, flushed.bad)
    /\ UNCHANGED << cache_lock, rows, submitted, processed, in_flight, done, not_done, todo,
                    queue, fut, w, domain_cache, dns, queries, flushed, returned >>

\* The run of main() with the buffers written out at any time and the
\* process killed at any time, on the inputs of LiveRowKinds.
NextCrash ==
    \/ pc # "killed" /\ MainStepLive
    \/ pc # "killed" /\ WorkerStep
    \/ \E file \in OutputFiles : BufferFlush(file)
    \/ Crash

SpecCrash == Init /\ [][NextCrash]_vars

(***************************************************************************)
(* has_mx_record called directly, by up to THREADS concurrent callers      *)
(***************************************************************************)
InitHasMx == pc = "harness" /\ InitCommon

\* Call number i enters has_mx_record(arg).
DirectCall(i) ==
    /\ pc = "harness"
    /\ w[i].pc = "idle"
    /\ i = Len(returned) + Cardinality(Busy) + 1
    /\ Cardinality(Busy) < THREADS
    /\ \E arg \in DirectArgs :
         w' = [w EXCEPT ![i] = [pc |-> "read", arg |-> arg,
                                domain |-> <<>>, outcome |-> "none", ok |-> FALSE]]
    /\ UNCHANGED << cache_lock, pc, rows, submitted, processed, in_flight, done, not_done, todo,
                    queue, fut, domain_cache, dns, queries, good, bad, returned,
                    flushed >>

NextHasMx == \E i \in Tasks : DirectCall(i) \/ HasMxStep(i)

SpecHasMx == InitHasMx /\ [][NextHasMx]_vars

(***************************************************************************)
(* Properties                                                              *)
(***************************************************************************)
Lines(file) == { k \in 1..Len(file) : file[k].kind = "row" }

HeaderLines(file) == { k \in 1..Len(file) : file[k].kind = "header" }

\* How many times the row of future i has been written, in either output.
TimesWritten(i) ==
    Cardinality({ k \in Lines(good) : good[k].id = i }) +
    Cardinality({ k \in Lines(bad) : bad[k].id = i })

\* The futures submitted and not yet collected by the main thread.
Outstanding == { i \in 1..submitted : TimesWritten(i) = 0 }

\* C1: when main() has finished a run on an input with a header, the rows
\* of the good output plus those of the bad output are as many as the data
\* rows of the input, every data row was submitted once and written once,
\* whether it was collected at the cap or in the final drain.
C1_RowsConserved ==
    pc = "done" =>
        /\ Cardinality(Lines(good)) + Cardinality(Lines(bad)) = Len(rows)
        /\ submitted = Len(rows)
        /\ processed = Len(rows)
        /\ \A i \in 1..Len(rows) : fut[i].state = "done" /\ TimesWritten(i) = 1

\* A finished run in which some rows were collected at the cap and the
\* others in the final drain.
C1_Witness ==
    /\ pc = "done"
    /\ Len(rows) > MAX_IN_FLIGHT
    /\ in_flight # {}
    /\ processed > Cardinality(in_flight)

\* C2: in every reachable state the futures submitted and not yet collected,
\* and the set in_flight, are at most MAX_IN_FLIGHT.
C2_InFlightBounded ==
    /\ Cardinality(in_flight) <= MAX_IN_FLIGHT
    /\ Cardinality(Outstanding) <= MAX_IN_FLIGHT
    /\ submitted - processed <= MAX_IN_FLIGHT

\* The producer stopped at the cap with MAX_IN_FLIGHT futures outstanding.
C2_Witness ==
    /\ pc = "wait"
    /\ Cardinality(in_flight) = MAX_IN_FLIGHT
    /\ Cardinality(Outstanding) = MAX_IN_FLIGHT

\* C3: with fair threads the run ends (so the producer does not stay at the
\* cap and every future is collected); when it has ended, every submitted
\* row has been written, exactly once; no row is ever written twice; and
\* the run completes only from the end of the executor block, with the
\* input exhausted and nothing outstanding.
C3_DrainsAndTerminates ==
    /\ <>(pc \in { "done", "empty" })
    /\ []((pc = "done") => (\A i \in 1..submitted : TimesWritten(i) = 1))
    /\ [](\A i \in Tasks : TimesWritten(i) <= 1)
    /\ []((pc = "done") => (Outstanding = {} /\ todo = {} /\ queue = <<>>))
    /\ [][(pc' = "done") => (pc = "shutdown" /\ rows' = rows)]_vars
    /\ [][(pc \in { "drain", "shutdown", "done" }) => (rows' = rows)]_vars

\* A finished run that was stopped at the cap and had futures to drain.
C3_Witness ==
    /\ pc = "done"
    /\ submitted > MAX_IN_FLIGHT
    /\ in_flight # {}
    /\ \E i \in 1..submitted : fut[i].fault = "none" /\ queries # Empty


StatusLabels ==
    { "Valid", "Invalid Syntax", "Invalid Domain", "Missing Email", "Error: RuntimeError" }

\* The futures whose process_row has ended.
Ended == { i \in 1..submitted : fut[i].state = "done" /\ fut[i].fault # "future" }

\* C4: process_row never lets an exception out: whatever the row (no field,
\* one field, more) and whatever the resolver or a faulty step did, the
\* future holds a row made of the input row and the four new columns, with
\* a status label.
C4_ProcessRowNeverRaises ==
    \A i \in Ended :
        /\ ~fut[i].exc
        /\ Len(fut[i].out) = Len(rows[i]) + 4
        /\ FieldsOf(fut[i].out) = rows[i]
        /\ StatusOf(fut[i].out) \in StatusLabels

\* A row without fields, a row that met a fault inside the try block, and a
\* row whose lookup failed have all been processed.
C4_Witness ==
    /\ \E i \in Ended : rows[i] = <<>>
    /\ \E i \in Ended : fut[i].fault = "domain" /\ StatusOf(fut[i].out) = "Error: RuntimeError"
    /\ \E i \in Ended : StatusOf(fut[i].out) = "Invalid Domain"

ValidIffBoth(out_row) ==
    (StatusOf(out_row) = "Valid") <=> (SyntaxOkOf(out_row) = TRUE /\ MxOkOf(out_row) = TRUE)

\* C5: every result row, on every path (the rows process_row returns, the
\* row built when fut.result() raises, and so every line written), has
\* status Valid exactly when syntax_ok and mx_ok are both true.
C5_ValidIffSyntaxAndMx ==
    /\ \A i \in 1..submitted : fut[i].state = "done" => ValidIffBoth(ResultOf(i))
    /\ \A k \in Lines(good) : ValidIffBoth(good[k].cells)
    /\ \A k \in Lines(bad) : ValidIffBoth(bad[k].cells)

\* The handler's row with syntax_ok true, the row standing for a failed
\* future, and a row that passed the lookup have been written.
C5_Witness ==
    /\ \E k \in Lines(bad) : /\ StatusOf(bad[k].cells) = "Error: RuntimeError"
                            /\ SyntaxOkOf(bad[k].cells) = TRUE
    /\ \E k \in Lines(bad) : StatusOf(bad[k].cells) = "FutureError: RuntimeError"
    /\ \E k \in Lines(good) : MxOkOf(good[k].cells) = TRUE /\ queries # Empty

\* C6: a collected result is in the good output exactly when its status is
\* Valid, and in the bad output otherwise, at the cap and in the drain: the
\* lines written are the futures' results, the good output holds no row
\* that is not Valid and the bad output no Valid row.
C6_RoutedByStatus ==
    /\ \A k \in Lines(good) : /\ good[k].cells = ResultOf(good[k].id)
                             /\ StatusOf(good[k].cells) = "Valid"
    /\ \A k \in Lines(bad) : /\ bad[k].cells = ResultOf(bad[k].id)
                            /\ StatusOf(bad[k].cells) # "Valid"

\* A finished run with rows in both outputs, some collected at the cap and
\* some in the drain, one of them with a valid syntax and no MX record.
C6_Witness ==
    /\ pc = "done"
    /\ Lines(good) # {}
    /\ \E k \in Lines(bad) : StatusOf(bad[k].cells) = "Invalid Domain"
    /\ in_flight # {}
    /\ processed > Cardinality(in_flight)

HeaderOnceAndFirst(file) ==
    /\ Len(file) >= 1
    /\ HeaderLines(file) = {1}
    /\ file[1].cells = Header \o DerivedColumns

\* C7 as stated: in every run, the run on an empty input file included,
\* both outputs get the header exactly once, before any data row.
C7_HeaderInEveryRun ==
    pc \in { "done", "empty" } => HeaderOnceAndFirst(good) /\ HeaderOnceAndFirst(bad)

\* C7, amended: once the header of the input has been read, each output
\* holds the augmented header exactly once, as its first line; a run on an
\* empty input file ends with both outputs empty.
C7_HeaderOnceUnlessEmpty ==
    /\ pc \notin { "start", "empty" } => HeaderOnceAndFirst(good) /\ HeaderOnceAndFirst(bad)
    /\ pc \in { "start", "empty" } => good = <<>> /\ bad = <<>>

\* A finished run with data rows after the header in both outputs.
C7_Witness ==
    /\ pc = "done"
    /\ Lines(good) # {}
    /\ Lines(bad) # {}

\* process_row on a has_mx_record without a cache: the verdict is the
\* resolver's, for the normalized domain.
NoCacheResult(row, fault) ==
    LET o == ProcessRowBegin(row, fault) IN
    IF o.kind = "call"
    THEN FinishRow(row, TRUE, dns[Normalize(o.domain)]).out
    ELSE o.out

\* The rows whose domain is d and was looked up.
LookedUp(d) ==
    { i \in Ended : /\ ProcessRowBegin(rows[i], fut[i].fault).kind = "call"
                    /\ Normalize(ProcessRowBegin(rows[i], fut[i].fault).domain) = d }

\* C8: with a resolver whose verdict for a domain does not change during
\* the run, every row gets the result (status, syntax_ok, mx_ok) it gets
\* without a cache, whatever the interleaving, and what the cache holds is
\* the resolver's verdict.
C8_CacheDoesNotAlterOutcomes ==
    /\ \A i \in Ended : fut[i].out = NoCacheResult(rows[i], fut[i].fault)
    /\ \A d \in DOMAIN domain_cache : d \in DOMAIN dns /\ domain_cache[d] = dns[d]

\* Two workers raced on the same uncached domain (two queries), a third row
\* of that domain was served by the cache, and the verdict was no.
C8_Witness ==
    \E d \in DOMAIN queries :
        /\ queries[d] = 2
        /\ Cardinality(LookedUp(d)) = 3
        /\ dns[d] = FALSE

\* The rows with a syntactically valid address at a skip-listed domain.
SkipListed ==
    { i \in 1..submitted :
        /\ is_valid_syntax(EmailOf(rows[i]))
        /\ Lower(SplitLast(EmailOf(rows[i]), "@")) \in SKIP_MX_DOMAINS }

\* C9: a row with a valid address at a skip-listed domain (after
\* lowercasing) gets mx_ok true and status Valid, and neither the resolver
\* nor the cache ever sees a skip-listed domain: none is queried, none is a
\* key of the cache, and no thread is inside has_mx_record for one.
C9_SkipListShortCircuit ==
    /\ \A i \in SkipListed \cap Ended :
          fut[i].fault = "none" =>
              /\ MxOkOf(fut[i].out) = TRUE
              /\ SyntaxOkOf(fut[i].out) = TRUE
              /\ StatusOf(fut[i].out) = "Valid"
    /\ \A i \in SkipListed : w[i].pc = "idle"
    /\ \A d \in SKIP_MX_DOMAINS : d \notin DOMAIN queries /\ d \notin DOMAIN domain_cache
    /\ \A i \in Tasks : w[i].pc # "idle" => Normalize(w[i].arg) \notin SKIP_MX_DOMAINS

\* A row at Gmail.com has been processed and is Valid, while another
\* domain has been looked up.
C9_Witness ==
    /\ \E i \in SkipListed \cap Ended :
          /\ rows[i][2] = EmailSkip
          /\ fut[i].fault = "none"
          /\ StatusOf(fut[i].out) = "Valid"
    /\ queries # Empty

\* C10 as stated: a direct call of has_mx_record with a skip-listed domain
\* returns true and no lookup is made for it.
C10_DirectCallSkipsLookup ==
    /\ \A k \in 1..Len(returned) :
          returned[k].arg \in SKIP_MX_DOMAINS => returned[k].ret = TRUE
    /\ \A d \in SKIP_MX_DOMAINS : d \notin DOMAIN queries

\* C10, amended: has_mx_record has no skip-list test: a direct call, with a
\* skip-listed domain as with any other, returns the resolver's verdict for
\* the normalized domain, which was looked up.
C10_DirectCallLooksUp ==
    \A k \in 1..Len(returned) :
        LET d == Normalize(returned[k].arg) IN
        /\ d \in DOMAIN queries
        /\ queries[d] >= 1
        /\ returned[k].ret = dns[d]

\* A direct call with gmail.com returned false after a failed lookup.
C10_Witness ==
    \E k \in 1..Len(returned) :
        /\ returned[k].arg \in SKIP_MX_DOMAINS
        /\ returned[k].ret = FALSE
        /\ queries[returned[k].arg] >= 1

Dots(n) == [j \in 1..n |-> "."]

EndsWithDot(s) == s # <<>> /\ s[Len(s)] = "."

\* d is the argument a trimmed, lowercased and without its trailing dots.
KeyFor(a, d) ==
    /\ ~EndsWithDot(d)
    /\ \E n \in 0..Len(a) : Lower(Strip(a)) = d \o Dots(n)

\* d is the argument a trimmed, lowercased and without one trailing dot.
KeyForOneDot(a, d) ==
    LET s == Lower(Strip(a)) IN
    d = IF EndsWithDot(s) THEN SubSeq(s, 1, Len(s) - 1) ELSE s

\* The cache keys the sample arguments may give: one per domain.
SampleKeys == { <<"g","m","a","i","l",".","c","o","m">>, <<"x",".","i","o">> }

\* C11 as stated: the cache key is the argument trimmed, lowercased and
\* with one trailing dot stripped: a call past the cache read holds that
\* key, and a call that returned has its verdict in the cache under it.
C11_StripsOneTrailingDot ==
    /\ \A i \in Tasks :
          w[i].pc \in { "query", "write" } => KeyForOneDot(w[i].arg, w[i].domain)
    /\ \A k \in 1..Len(returned) :
          \E d \in DOMAIN domain_cache :
              KeyForOneDot(returned[k].arg, d) /\ domain_cache[d] = returned[k].ret

\* C11, amended: the cache key is the argument trimmed, then lowercased,
\* then with every trailing dot stripped: a call past the cache read holds
\* that key, and a call that returned has its verdict in the cache under
\* it, so that the spellings of a domain in capitals, with surrounding
\* whitespace or with trailing dots read and write one cache entry and the
\* cache never holds two keys for a domain.
C11_NormalizedCacheKey ==
    /\ \A i \in Tasks :
          w[i].pc \in { "query", "write" } => KeyFor(w[i].arg, w[i].domain)
    /\ \A k \in 1..Len(returned) :
          \E d \in DOMAIN domain_cache :
              KeyFor(returned[k].arg, d) /\ domain_cache[d] = returned[k].ret
    /\ DOMAIN domain_cache \subseteq SampleKeys

\* Three spellings of x.io were passed, one after a verdict was stored, and
\* the cache holds the single entry x.io.
C11_Witness ==
    /\ { returned[k].arg : k \in 1..Len(returned) } =
           { <<"x",".","i","o">>, <<" ","X",".","i","o","."," ">>,
             <<"x",".","i","o",".",".">> }
    /\ DOMAIN domain_cache = { <<"x",".","i","o">> }
    /\ queries[<<"x",".","i","o">>] < Len(returned)

\* C12: has_mx_record never raises: every call returns a boolean; when the
\* resolver raised, whatever it raised (NXDOMAIN, a timeout, no name server,
\* anything else), the call returns false; a call that looked up holds the
\* verdict of its own query; and when a call has returned, the cache holds
\* the value it returned under the normalized domain.
C12_HasMxNeverThrows ==
    /\ \A k \in 1..Len(returned) :
          LET r == returned[k] IN
          /\ ~r.raised
          /\ r.ret \in BOOLEAN
          /\ r.outcome \in ResolverOutcomes \ { "answer" } => r.ret = FALSE
          /\ r.outcome = "answer" => r.ret = TRUE
          /\ Normalize(r.arg) \in DOMAIN domain_cache
          /\ domain_cache[Normalize(r.arg)] = r.ret
    /\ \A i \in Tasks :
          w[i].pc = "write" => w[i].ok = (w[i].outcome = "answer")

\* Calls that missed the cache have returned after a timeout and after a
\* RuntimeError of the resolver, and one after an answer.
C12_Witness ==
    /\ \E k \in 1..Len(returned) : returned[k].outcome = "Timeout"
    /\ \E k \in 1..Len(returned) : returned[k].outcome = "RuntimeError"
    /\ \E k \in 1..Len(returned) : returned[k].outcome = "answer"
    /\ \A k \in 1..Len(returned) :
          domain_cache[Normalize(returned[k].arg)] = returned[k].ret

\* C13 as stated: every row is written out to its file before the next
\* result is processed, so that killing the process loses no row that was
\* routed: after a kill the files hold as many rows as were processed, and
\* between two results every row written has left the buffer of its file.
C13_RowsDurable ==
    /\ pc = "killed" =>
          Cardinality(Lines(good)) + Cardinality(Lines(bad)) = processed
    /\ pc \in { "submit", "wait", "drain", "shutdown", "done" } =>
          /\ \A k \in Lines(good) : k <= flushed.good
          /\ \A k \in Lines(bad) : k <= flushed.bad

\* The rows without an email: fewer than two fields, or a second field made
\* of whitespace only.
MissingEmailRows ==
    { i \in 1..submitted : Len(rows[i]) < 2 \/ AllIn(rows[i][2], Whitespace) }

MissingEmailRow(row) == row \o << <<>>, FALSE, FALSE, "Missing Email" >>

\* C14: a row whose email field is absent or blank gets from process_row
\* the input row followed by an empty echo field, syntax_ok = false,
\* mx_ok = false and the status Missing Email, and no exception; its thread
\* never enters has_mx_record, for a fault at the syntax or the domain step
\* cannot reach it; and it is written to the bad output, never to the good.
C14_MissingEmail ==
    /\ \A i \in MissingEmailRows :
          /\ w[i].pc = "idle"
          /\ fut[i].state # "running"
          /\ fut[i].state = "done" /\ fut[i].fault # "future" =>
                ~fut[i].exc /\ fut[i].out = MissingEmailRow(rows[i])
    /\ \A k \in Lines(good) : good[k].id \notin MissingEmailRows
    /\ \A k \in Lines(bad) :
          bad[k].id \in MissingEmailRows /\ fut[bad[k].id].fault # "future" =>
              bad[k].cells = MissingEmailRow(rows[bad[k].id])

\* A finished run on a row without fields, a row with one field and a row
\* with a blank email, all three in the bad output with Missing Email.
C14_Witness ==
    /\ pc = "done"
    /\ { rows[i] : i \in MissingEmailRows } =
          { <<>>, << NameField >>, << NameField, EmailBlank >> }
    /\ \A i \in MissingEmailRows :
          \E k \in Lines(bad) : bad[k].id = i /\ StatusOf(bad[k].cells) = "Missing Email"

\* The rows with a non-blank email field.
WithEmail ==
    { i \in 1..submitted : Len(rows[i]) >= 2 /\ ~AllIn(rows[i][2], Whitespace) }

\* The rows whose trimmed address the pattern rejects, and those it accepts.
InvalidSyntaxRows == { i \in WithEmail : ~EMAIL_REGEX(Strip(rows[i][2])) }

ValidSyntaxRows == { i \in WithEmail : EMAIL_REGEX(Strip(rows[i][2])) }

\* C15: a result with a non-empty echo field has syntax_ok false; a row
\* whose non-blank address fails the syntax check gets the status Invalid
\* Syntax, syntax_ok and mx_ok false and the trimmed address as echo, and
\* its thread never enters has_mx_record (no cache read, no query); a row
\* whose address passed the syntax check has an empty echo field, also when
\* a later step failed.
C15_EchoOnlyOnSyntaxFailure ==
    /\ \A i \in 1..submitted :
          fut[i].state = "done" /\ EchoOf(ResultOf(i)) # <<>> =>
              SyntaxOkOf(ResultOf(i)) = FALSE /\ i \in WithEmail
    /\ \A i \in InvalidSyntaxRows :
          /\ w[i].pc = "idle"
          /\ fut[i].state # "running"
          /\ fut[i].state = "done" /\ fut[i].fault = "none" =>
                fut[i].out = rows[i] \o << Strip(rows[i][2]), FALSE, FALSE, "Invalid Syntax" >>
    /\ \A i \in ValidSyntaxRows :
          fut[i].state = "done" /\ fut[i].fault # "syntax" =>
              EchoOf(ResultOf(i)) = <<>>
    /\ \A k \in Lines(good) : EchoOf(good[k].cells) = <<>>

\* Written to the bad output: the row of " a@gmail.com." with the trimmed
\* address as echo, and a row whose address passed the syntax check and
\* whose domain step failed, with an empty echo; to the good output: a row
\* that passed both checks.
C15_Witness ==
    /\ \E k \in Lines(bad) :
          /\ StatusOf(bad[k].cells) = "Invalid Syntax"
          /\ EchoOf(bad[k].cells) = <<"a","@","g","m","a","i","l",".","c","o","m",".">>
          /\ MxOkOf(bad[k].cells) = FALSE
    /\ \E k \in Lines(bad) :
          /\ fut[bad[k].id].fault = "domain"
          /\ SyntaxOkOf(bad[k].cells) = TRUE
          /\ EchoOf(bad[k].cells) = <<>>
    /\ \E k \in Lines(good) : good[k].id \in ValidSyntaxRows

\* The futures whose result() raises.
FailedFutures == { i \in 1..submitted : fut[i].state = "done" /\ fut[i].exc }

\* One blank per column of the header, a blank echo, False, False and the
\* error label of line 176.
SyntheticRow == << <<>>, <<>>, <<>>, FALSE, FALSE, "FutureError: RuntimeError" >>

\* C16: when result() of a completed future raises, main() goes on: the row
\* written for that future is the synthetic one (blank fields, syntax_ok and
\* mx_ok false, an error label), it goes to the bad output and never to the
\* good one, it is counted in processed like any other, and a finished run
\* has written one row per input row, whether the future was collected at
\* the cap or in the final drain.
C16_FutureErrorRow ==
    /\ \A k \in Lines(good) : good[k].id \notin FailedFutures
    /\ \A k \in Lines(bad) :
          bad[k].id \in FailedFutures => bad[k].cells = SyntheticRow
    /\ Cardinality(Lines(good)) + Cardinality(Lines(bad)) = processed
    /\ processed = Cardinality({ i \in 1..submitted : TimesWritten(i) = 1 })
    /\ pc = "done" =>
          /\ processed = Len(rows)
          /\ \A i \in FailedFutures : TimesWritten(i) = 1

\* A finished run in which one failed future was collected at the cap and
\* another in the final drain (in_flight holds the futures left to the
\* drain), both written to the bad output.
C16_Witness ==
    /\ pc = "done"
    /\ \E i \in FailedFutures \cap in_flight :
          \E k \in Lines(bad) : bad[k].id = i /\ bad[k].cells = SyntheticRow
    /\ \E i \in FailedFutures \ in_flight :
          \E k \in Lines(bad) : bad[k].id = i /\ bad[k].cells = SyntheticRow

\* C17: while the producer is stopped at the cap (waiting, or collecting)
\* nothing is submitted; the wait returns only when a future of in_flight
\* has completed, with done the set of all the futures of in_flight that
\* have completed and not_done the others; submission resumes only when
\* every future of done has been written, and then in_flight is what it was
\* without done (the futures not complete when the wait returned) and has
\* fewer than MAX_IN_FLIGHT elements.
C17_CapBlocksAndCollectsAll ==
    /\ [][(pc \in { "wait", "collect" }) =>
             (submitted' = submitted /\ rows' = rows /\
              \A i \in Tasks : fut[i].state = "none" => fut'[i].state = "none")]_vars
    /\ [][(pc = "wait" /\ pc' # "wait") =>
             (/\ pc' = "collect"
              /\ done' # {}
              /\ done' = { f \in in_flight : fut[f].state = "done" }
              /\ not_done' = { f \in in_flight : fut[f].state # "done" })]_vars
    /\ [][(pc = "collect" /\ pc' # "collect") =>
             (/\ pc' = "submit"
              /\ \A f \in done : TimesWritten(f)' = 1
              /\ in_flight' = in_flight \ done
              /\ in_flight' = not_done
              /\ processed' = submitted - Cardinality(in_flight')
              /\ Cardinality(in_flight') < MAX_IN_FLIGHT)]_vars
    /\ [](pc = "wait" => Cardinality(in_flight) = MAX_IN_FLIGHT)
    /\ [](pc = "collect" => done # {} /\ done \cup not_done = in_flight
                            /\ done \cap not_done = {})

\* Submission has resumed after a wait that returned with every future in
\* flight complete: all of them were collected in one step.
C17_Witness ==
    /\ pc = "submit"
    /\ submitted = MAX_IN_FLIGHT
    /\ processed = MAX_IN_FLIGHT
    /\ in_flight = {}
    /\ Cardinality(Lines(good)) + Cardinality(Lines(bad)) = MAX_IN_FLIGHT

\* The threads inside the network call of has_mx_record.
Querying == { i \in Tasks : w[i].pc = "query" }

\* C18: the lock is held around the read and around the write of the cache
\* and not during the DNS query: no thread inside the network call holds
\* it, and whatever the threads inside the network call, a thread that is
\* at the cache read or at the cache write can proceed.
C18_LockNotHeldDuringQuery ==
    /\ cache_lock \notin Querying
    /\ Querying # {} => cache_lock = 0
    /\ \A j \in Tasks :
          Querying \ {j} # {} /\ w[j].pc = "read" => ENABLED HasMxRead(j)
    /\ \A j \in Tasks :
          Querying \ {j} # {} /\ w[j].pc = "write" => ENABLED HasMxWrite(j)

\* Three threads are inside the network call at once, two of them for the
\* same uncached domain and the third for another domain.
C18_Witness ==
    \E i, j, k \in Querying :
        /\ i # j
        /\ w[i].domain = w[j].domain
        /\ w[i].domain \notin DOMAIN domain_cache
        /\ w[k].domain # w[i].domain

\* The direct calls for the domain d that looked it up, returned or about
\* to store their verdict.
Misses(d) ==
    Cardinality({ k \in 1..Len(returned) :
                     Normalize(returned[k].arg) = d /\ returned[k].outcome # "none" }) +
    Cardinality({ i \in Tasks : w[i].pc = "write" /\ w[i].domain = d })

\* C19: a call whose cache read finds a verdict stored for its normalized
\* domain returns that verdict in the same step, without a query; a call
\* goes on to the query only when its read found the domain absent; the
\* resolver is invoked only by a thread that is past such a read, for the
\* domain it read; so every invocation of the resolver belongs to a call
\* that missed the cache.
C19_QueryOnlyOnMiss ==
    /\ [][\A i \in Tasks :
             (w[i].pc = "read" /\ w'[i].pc # "read") =>
                 LET d == Normalize(w[i].arg) IN
                 IF d \in DOMAIN domain_cache
                 THEN /\ w'[i].pc = "idle"
                      /\ queries' = queries
                      /\ Len(returned') = Len(returned) + 1
                      /\ returned'[Len(returned')].arg = w[i].arg
                      /\ returned'[Len(returned')].ret = domain_cache[d]
                      /\ returned'[Len(returned')].outcome = "none"
                 ELSE /\ w'[i].pc = "query"
                      /\ w'[i].domain = d
                      /\ returned' = returned]_vars
    /\ [][queries' # queries =>
             \E i \in Tasks :
                 /\ w[i].pc = "query" /\ w'[i].pc # "query"
                 /\ \A d \in DOMAIN queries : d # w[i].domain => queries'[d] = queries[d]]_vars
    /\ [](\A i \in Tasks : w[i].pc = "query" => w[i].domain = Normalize(w[i].arg))
    /\ [](\A d \in DOMAIN queries : queries[d] = Misses(d))
    /\ [](\A k \in 1..Len(returned) :
             returned[k].outcome = "none" =>
                 returned[k].ret = domain_cache[Normalize(returned[k].arg)])

\* Three calls for x.io have returned after a single lookup: two of them
\* were served by the cache.
C19_Witness ==
    /\ Len(returned) = 3
    /\ \A k \in 1..3 : Normalize(returned[k].arg) = <<"x",".","i","o">>
    /\ queries[<<"x",".","i","o">>] = 1
    /\ Cardinality({ k \in 1..3 : returned[k].outcome = "none" }) = 2

\* C20: between two iterations of the submission loop (before a submission,
\* and stopped at the cap before the wait returns) processed + |in_flight|
\* = submitted and in_flight is the set of the futures submitted and not
\* yet collected; no future is ever collected twice; during a collection at
\* the cap the futures still to collect are those of done and not_done;
\* the final drain collects the futures of in_flight, each once (it leaves
\* the set itself as it was); at termination every future of in_flight has
\* been collected, none is outstanding, and processed = submitted = the
\* number of data rows.
C20_Bookkeeping ==
    /\ pc \in { "submit", "wait" } =>
          /\ processed + Cardinality(in_flight) = submitted
          /\ in_flight = Outstanding
          /\ submitted = Len(rows)
    /\ \A i \in Tasks : TimesWritten(i) <= 1
    /\ pc = "collect" =>
          /\ processed + Cardinality(todo) + Cardinality(not_done) = submitted
          /\ todo \cup not_done = Outstanding
    /\ pc \in { "drain", "shutdown", "done" } =>
          /\ processed + Cardinality(todo) = submitted
          /\ todo = Outstanding
          /\ todo \subseteq in_flight
          /\ Cardinality(in_flight) < MAX_IN_FLIGHT
    /\ pc \in { "shutdown", "done" } =>
          /\ Outstanding = {}
          /\ processed = submitted
          /\ submitted = Len(rows)
          /\ \A i \in in_flight : TimesWritten(i) = 1

\* A finished run of MaxTasks rows whose last future was left to the final
\* drain: it has been collected and is still in in_flight.
C20_Witness ==
    /\ pc = "done"
    /\ processed = MaxTasks
    /\ submitted = MaxTasks
    /\ in_flight = { MaxTasks }
    /\ TimesWritten(MaxTasks) = 1

=============================================================================
